---- MODULE Spec2Model ----
(***************************************************************************)
(* NutriScan AI (src/app.py): a Streamlit script.  The script is executed  *)
(* top to bottom once when the page is loaded and once more after every    *)
(* user action on a widget; widget values (the uploaded image, the text of *)
(* the search box) are kept by the framework between executions, while the *)
(* page is rebuilt from nothing by each execution.                         *)
(*                                                                         *)
(* The model follows one browser session: pc is the position of the        *)
(* running script ("idle" between two executions), `shown` is the page as  *)
(* built so far, and the reasoning service is an adversary that may raise, *)
(* answer with text that is no JSON, or answer with JSON of any shape.     *)
(***************************************************************************)
EXTENDS Integers, Sequences, FiniteSets

\* ------------------------------------------------------------------ bounds
\* user actions followed in one session
MaxActions == 2
\* longest `additives` list the service answers with
MaxAdditives == 2
\* longest `alternatives` list the service answers with
MaxAlternatives == 3

\* ------------------------------------------------------- schema (pydantic)
Absent == "<absent>"
NoText == ""
SomeText == "text"

\* class Additive
AdditiveFields == {"name", "e_number", "explanation", "risk_level"}
\* class ScanResult
ScanFields == {"product_identified", "psychological_insights", "calories_estimate",
               "sugar_levels", "sodium_levels", "preservatives_found", "additives"}
\* class Alternative
AlternativeFields == {"name", "reason", "image_search_prompt"}

\* risk_level is declared `str`: the service may send the tokens the prompt
\* asks for ("Red", "Yellow", "Green") or any other string.
RiskTokens == {"Red", "Yellow", "Green", "High", "Medium", "Low"}

\* colours of the additive card
RedHex == "#FF4B4B"
YellowHex == "#FFD166"
GreenHex == "#06D6A0"

\* ------------------------------------- what the reasoning service may send
FullAdditive(risk) ==
    [name |-> SomeText, e_number |-> SomeText, explanation |-> SomeText, risk_level |-> risk]

\* an additive object: complete with any risk token, or lacking one key
AdditiveObjects ==
    {FullAdditive(r) : r \in RiskTokens}
        \cup {[FullAdditive("Red") EXCEPT ![f] = Absent] : f \in AdditiveFields}

RECURSIVE SeqsUpTo(_, _)
SeqsUpTo(S, n) ==
    IF n = 0 THEN {<<>>}
    ELSE LET shorter == SeqsUpTo(S, n - 1)
         IN shorter \cup {Append(s, x) : s \in {t \in shorter : Len(t) = n - 1}, x \in S}

\* the keys of the scan object: all of them, all but one, or none
ScanKeySets == {ScanFields} \cup {ScanFields \ {f} : f \in ScanFields} \cup {{}}

NoValue == [kind |-> "none", keys |-> {}, items |-> <<>>]
NullValue == [kind |-> "null", keys |-> {}, items |-> <<>>]

\* JSON values the scan call may carry: null, or an object with some keys
\* (its `additives`, when present, a list of additive objects)
ScanValues ==
    {NullValue}
        \cup {[kind |-> "object", keys |-> k, items |-> a] :
                k \in {s \in ScanKeySets : "additives" \in s},
                a \in SeqsUpTo(AdditiveObjects, MaxAdditives)}
        \cup {[kind |-> "object", keys |-> k, items |-> <<>>] :
                k \in {s \in ScanKeySets : "additives" \notin s}}

\* an alternative object: complete, with an empty string, or lacking a key
FullAlternative == [name |-> SomeText, reason |-> SomeText, image_search_prompt |-> SomeText]
AlternativeObjects ==
    {FullAlternative,
     [FullAlternative EXCEPT !.name = NoText],
     [FullAlternative EXCEPT !.image_search_prompt = Absent],
     [FullAlternative EXCEPT !.name = Absent],
     [FullAlternative EXCEPT !.reason = Absent]}

\* JSON values the search call may carry
SearchValues ==
    {NullValue, [kind |-> "object", keys |-> {}, items |-> <<>>]}
        \cup {[kind |-> "object", keys |-> {"alternatives"}, items |-> a] :
                a \in SeqsUpTo(AlternativeObjects, MaxAlternatives)}

\* response.text: well-formed JSON text of a value, or text that is no JSON
Garbage == [wellformed |-> FALSE, value |-> NoValue]
TextOf(v) == [wellformed |-> TRUE, value |-> v]

\* json.loads: raises on text that is no JSON, else yields the value
JsonLoads(text) ==
    IF text.wellformed THEN [raised |-> FALSE, value |-> text.value]
    ELSE [raised |-> TRUE, value |-> NoValue]

\* data[key] on a parsed value: TypeError when it is not an object,
\* KeyError(key) when the object lacks the key
Subscript(value, key) ==
    IF value.kind # "object" THEN "TypeError"
    ELSE IF key \notin value.keys THEN key
    ELSE "ok"

\* add[key] on one additive / alternative object
ItemSubscript(item, key) == IF item[key] = Absent THEN key ELSE "ok"

VARIABLES
    secret,        \* st.secrets holds GEMINI_API_KEY: "present" / "absent"
    image,         \* image_to_process: "none" / "valid" / "corrupt"
    search_query,  \* value of the search text box
    widgets,       \* input widgets the last execution put on the page
    pc,            \* position of the running script, "idle" between executions
    shown,         \* the page: sequence of [kind, detail] elements
    status,        \* the st.status box: "none" / "running" / "complete" / "error"
    response,      \* text returned by the call being handled
    data,          \* the parsed value being rendered (data / alt_data)
    idx,           \* position of the running for-loop
    exc,           \* what the try block of line 129 raised in this execution ("none" if nothing)
    alt_exc,       \* what the try block of line 185 raised in this execution ("none" if nothing)
    actions,       \* user actions so far in the session
    calls,         \* generate_content calls so far in the session
    run_calls      \* generate_content calls of the current execution

vars == <<secret, image, search_query, widgets, pc, shown, status, response, data,
          idx, exc, alt_exc, actions, calls, run_calls>>

El(kind, detail) == [kind |-> kind, detail |-> detail]
Show(kind, detail) == Append(shown, El(kind, detail))
Kinds == {shown[i].kind : i \in 1..Len(shown)}

\* the page is loaded: the script starts its first execution with empty widgets
Init ==
    /\ secret \in {"present", "absent"}
    /\ image = "none"
    /\ search_query = NoText
    /\ widgets = {}
    /\ pc = "L94"
    /\ shown = <<>>
    /\ status = "none"
    /\ response = Garbage
    /\ data = NoValue
    /\ idx = 0
    /\ exc = "none"
    /\ alt_exc = "none"
    /\ actions = 0
    /\ calls = 0
    /\ run_calls = 0

\* --------------------------------------------------------- the user's side
\* every execution rebuilds the page and its local variables from nothing
StartRun ==
    /\ pc' = "L94"
    /\ widgets' = {}
    /\ shown' = <<>>
    /\ status' = "none"
    /\ response' = Garbage
    /\ data' = NoValue
    /\ idx' = 0
    /\ exc' = "none"
    /\ alt_exc' = "none"
    /\ run_calls' = 0
    /\ actions' = actions + 1
    /\ UNCHANGED <<secret, calls>>

\* the user takes a picture or uploads a file (the uploader filters by file
\* extension only, so the file need not be an image PIL can open)
SubmitImage ==
    /\ pc = "idle"
    /\ actions < MaxActions
    /\ "uploader" \in widgets
    /\ \E img \in {"valid", "corrupt"} : image' = img
    /\ UNCHANGED search_query
    /\ StartRun

\* the user enters a new text in the search box
SubmitQuery ==
    /\ pc = "idle"
    /\ actions < MaxActions
    /\ "search_box" \in widgets
    /\ \E q \in {"Doritos"} : q # search_query /\ search_query' = q
    /\ UNCHANGED image
    /\ StartRun

\* ------------------------------------------------------ the script's steps
Goto(l) == pc' = l

\* a statement of the try block of line 129 raises e: control goes to the
\* except clause at `handler`
Raise(e, handler) == exc' = e /\ pc' = handler

\* lines 94-99, the variant of the except clause that reports and goes on
LoadCredentialNoStop ==
    /\ pc = "L94"
    /\ IF secret = "absent"
       THEN shown' = Show("config_error", "App locked. Add API Key to Streamlit Secrets.")
       ELSE shown' = shown
    /\ Goto("L107")
    /\ UNCHANGED <<secret, image, search_query, widgets, status, response, data, idx,
                   exc, alt_exc, actions, calls, run_calls>>

\* lines 94-99: st.secrets["GEMINI_API_KEY"]; on KeyError st.error and st.stop
LoadCredential ==
    /\ pc = "L94"
    /\ IF secret = "absent"
       THEN /\ shown' = Show("config_error", "App locked. Add API Key to Streamlit Secrets.")
            /\ Goto("idle")
       ELSE /\ shown' = shown
            /\ Goto("L107")
    /\ UNCHANGED <<secret, image, search_query, widgets, status, response, data, idx,
                   exc, alt_exc, actions, calls, run_calls>>

\* lines 107-118: the scanner tab puts its input widgets on the page and
\* reads image_to_process
ScanTab ==
    /\ pc = "L107"
    /\ widgets' = widgets \cup {"uploader"}
    /\ IF image = "none" THEN Goto("L172") ELSE Goto("L119")
    /\ UNCHANGED <<secret, image, search_query, shown, status, response, data, idx,
                   exc, alt_exc, actions, calls, run_calls>>

\* lines 119-128: PIL.Image.open stands before the try block, so what it
\* raises ends the execution (the framework prints the exception); otherwise
\* the status box opens
OpenImage ==
    /\ pc = "L119"
    /\ IF image = "corrupt"
       THEN /\ shown' = Show("exception", "UnidentifiedImageError")
            /\ Goto("idle")
            /\ status' = status
       ELSE /\ shown' = shown
            /\ status' = "running"
            /\ Goto("L130")
    /\ UNCHANGED <<secret, image, search_query, widgets, response, data, idx,
                   exc, alt_exc, actions, calls, run_calls>>

\* lines 130-134: one generate_content call; it raises or returns text
ScanCall ==
    /\ pc = "L130"
    /\ calls' = calls + 1
    /\ run_calls' = run_calls + 1
    /\ \/ /\ Raise("ServiceError", "L165")
          /\ response' = response
       \/ /\ \E t \in {Garbage} \cup {TextOf(v) : v \in ScanValues} : response' = t
          /\ Goto("L135")
          /\ exc' = exc
    /\ UNCHANGED <<secret, image, search_query, widgets, shown, status, data, idx,
                   alt_exc, actions>>

\* lines 135-136: json.loads, then the status box is set to complete
ScanParse ==
    /\ pc = "L135"
    /\ LET r == JsonLoads(response)
       IN IF r.raised
          THEN /\ Raise("JSONDecodeError", "L165")
               /\ UNCHANGED <<data, status>>
          ELSE /\ data' = r.value
               /\ status' = "complete"
               /\ Goto("L139")
               /\ exc' = exc
    /\ UNCHANGED <<secret, image, search_query, widgets, shown, response, idx,
                   alt_exc, actions, calls, run_calls>>

\* one st.markdown whose f-string reads data[key]
RenderField(at, key, kind, next) ==
    /\ pc = at
    /\ LET r == Subscript(data, key)
       IN IF r # "ok"
          THEN /\ Raise(r, "L165")
               /\ shown' = shown
          ELSE /\ shown' = Show(kind, SomeText)
               /\ Goto(next)
               /\ exc' = exc
    /\ UNCHANGED <<secret, image, search_query, widgets, status, response, data, idx,
                   alt_exc, actions, calls, run_calls>>

\* line 139: the product name
RenderProduct == RenderField("L139", "product_identified", "product_name", "L142")

\* lines 142-146: the insights card is opened, then the list is read
RenderInsights ==
    /\ pc = "L142"
    /\ LET r == Subscript(data, "psychological_insights")
           opened == Append(shown, El("insights_heading", SomeText))
       IN IF r # "ok"
          THEN /\ Raise(r, "L165")
               /\ shown' = opened
          ELSE /\ shown' = Append(opened, El("insights", SomeText))
               /\ Goto("L150")
               /\ exc' = exc
    /\ UNCHANGED <<secret, image, search_query, widgets, status, response, data, idx,
                   alt_exc, actions, calls, run_calls>>

\* lines 149-152: the three macro cards
RenderCalories == RenderField("L150", "calories_estimate", "calories", "L151")
RenderSugar == RenderField("L151", "sugar_levels", "sugar", "L152")
RenderSodium == RenderField("L152", "sodium_levels", "sodium", "L155")

\* lines 155-156: the heading, then data['additives'] starts the loop
AdditivesHeading ==
    /\ pc = "L155"
    /\ shown' = Show("additive_heading", SomeText)
    /\ LET r == Subscript(data, "additives")
       IN IF r # "ok"
          THEN /\ Raise(r, "L165")
               /\ idx' = idx
          ELSE /\ idx' = 1
               /\ Goto("L157")
               /\ exc' = exc
    /\ UNCHANGED <<secret, image, search_query, widgets, status, response, data,
                   alt_exc, actions, calls, run_calls>>

\* line 157, with the two literals exchanged
AdditiveColorSwapped(risk_level) ==
    IF risk_level = "Red" THEN YellowHex
    ELSE IF risk_level = "Yellow" THEN RedHex
    ELSE GreenHex

\* line 157, with a final branch that hands the token on as the colour
AdditiveColorPassThrough(risk_level) ==
    IF risk_level = "Red" THEN RedHex
    ELSE IF risk_level = "Yellow" THEN YellowHex
    ELSE IF risk_level = "Green" THEN GreenHex
    ELSE risk_level

\* line 157: the colour of an additive card
AdditiveColor(risk_level) ==
    IF risk_level = "Red" THEN RedHex
    ELSE IF risk_level = "Yellow" THEN YellowHex
    ELSE GreenHex

\* the first key of `order` the item lacks, "ok" when it has them all
RECURSIVE FirstMissing(_, _)
FirstMissing(item, order) ==
    IF order = <<>> THEN "ok"
    ELSE IF ItemSubscript(item, Head(order)) # "ok" THEN Head(order)
    ELSE FirstMissing(item, Tail(order))

\* lines 156-163: one turn of the loop over data['additives']; risk_level is
\* read first (line 157), then name, e_number and explanation by the f-string
RenderAdditive ==
    /\ pc = "L157"
    /\ IF idx > Len(data.items)
       THEN /\ Goto("L172")
            /\ UNCHANGED <<shown, idx, exc>>
       ELSE LET add == data.items[idx]
                r == FirstMissing(add, <<"risk_level", "name", "e_number", "explanation">>)
            IN IF r # "ok"
               THEN /\ Raise(r, "L165")
                    /\ UNCHANGED <<shown, idx>>
               ELSE /\ shown' = Show("additive_card", AdditiveColor(add.risk_level))
                    /\ idx' = idx + 1
                    /\ UNCHANGED <<pc, exc>>
    /\ UNCHANGED <<secret, image, search_query, widgets, status, response, data,
                   alt_exc, actions, calls, run_calls>>

\* lines 165-167, without the status update
ScanExceptKeepsStatus ==
    /\ pc = "L165"
    /\ shown' = Show("scan_error", exc)
    /\ Goto("L172")
    /\ UNCHANGED <<secret, image, search_query, widgets, status, response, data, idx, exc,
                   alt_exc, actions, calls, run_calls>>

\* lines 165-167: except Exception: the status box turns to "Scan Failed"
\* and the exception is printed with st.error
ScanExcept ==
    /\ pc = "L165"
    /\ status' = "error"
    /\ shown' = Show("scan_error", exc)
    /\ Goto("L172")
    /\ UNCHANGED <<secret, image, search_query, widgets, response, data, idx, exc,
                   alt_exc, actions, calls, run_calls>>

\* lines 172-177: the search tab puts its text box on the page and reads
\* search_query; the locals of the scanner tab are not read again
SearchTab ==
    /\ pc = "L172"
    /\ widgets' = widgets \cup {"search_box"}
    /\ response' = Garbage
    /\ data' = NoValue
    /\ idx' = 0
    /\ IF search_query = NoText THEN Goto("idle") ELSE Goto("L186")
    /\ UNCHANGED <<secret, image, search_query, shown, status, exc, alt_exc,
                   actions, calls, run_calls>>

\* a statement of the try block of line 185 raises e
RaiseAlt(e) == alt_exc' = e /\ pc' = "L211"

\* lines 186-190: one generate_content call; it raises or returns text
SearchCall ==
    /\ pc = "L186"
    /\ calls' = calls + 1
    /\ run_calls' = run_calls + 1
    /\ \/ /\ RaiseAlt("ServiceError")
          /\ response' = response
       \/ /\ \E t \in {Garbage} \cup {TextOf(v) : v \in SearchValues} : response' = t
          /\ Goto("L191")
          /\ alt_exc' = alt_exc
    /\ UNCHANGED <<secret, image, search_query, widgets, shown, status, data, idx,
                   exc, actions>>

\* lines 191-193: json.loads, then the heading of the suggestions
SearchParse ==
    /\ pc = "L191"
    /\ LET r == JsonLoads(response)
       IN IF r.raised
          THEN /\ RaiseAlt("JSONDecodeError")
               /\ UNCHANGED <<data, shown>>
          ELSE /\ data' = r.value
               /\ shown' = Show("alt_heading", search_query)
               /\ Goto("L195")
               /\ alt_exc' = alt_exc
    /\ UNCHANGED <<secret, image, search_query, widgets, status, response, idx,
                   exc, actions, calls, run_calls>>

\* line 195: alt_data['alternatives'] starts the loop
SearchLoop ==
    /\ pc = "L195"
    /\ LET r == Subscript(data, "alternatives")
       IN IF r # "ok"
          THEN /\ RaiseAlt(r)
               /\ idx' = idx
          ELSE /\ idx' = 1
               /\ Goto("L196")
               /\ alt_exc' = alt_exc
    /\ UNCHANGED <<secret, image, search_query, widgets, shown, status, response, data,
                   exc, actions, calls, run_calls>>

\* the elements one alternative puts on the page before `r`, the first key it
\* lacks, stops it: the image (line 203), the name (206), the reason (207)
AlternativeElements(alt, r) ==
    IF r = "image_search_prompt" THEN <<>>
    ELSE IF r = "name" THEN <<El("alt_image", alt.image_search_prompt)>>
    ELSE IF r = "reason"
    THEN <<El("alt_image", alt.image_search_prompt), El("alt_name", alt.name)>>
    ELSE <<El("alt_image", alt.image_search_prompt), El("alt_name", alt.name),
           El("alt_reason", alt.reason)>>

\* lines 195-209: one turn of the loop over the alternatives; after the last
\* one the script ends
RenderAlternative ==
    /\ pc = "L196"
    /\ IF idx > Len(data.items)
       THEN /\ Goto("idle")
            /\ UNCHANGED <<shown, idx, alt_exc>>
       ELSE LET alt == data.items[idx]
                r == FirstMissing(alt, <<"image_search_prompt", "name", "reason">>)
            IN /\ shown' = shown \o AlternativeElements(alt, r)
               /\ IF r # "ok"
                  THEN RaiseAlt(r) /\ idx' = idx
                  ELSE idx' = idx + 1 /\ UNCHANGED <<pc, alt_exc>>
    /\ UNCHANGED <<secret, image, search_query, widgets, status, response, data,
                   exc, actions, calls, run_calls>>

\* lines 211-212: except Exception: st.error("Search failed: ..."), then the
\* script ends
SearchExcept ==
    /\ pc = "L211"
    /\ shown' = Show("search_error", alt_exc)
    /\ Goto("idle")
    /\ UNCHANGED <<secret, image, search_query, widgets, status, response, data, idx,
                   exc, alt_exc, actions, calls, run_calls>>

Next ==
    \/ SubmitImage
    \/ SubmitQuery
    \/ LoadCredential
    \/ ScanTab
    \/ OpenImage
    \/ ScanCall
    \/ ScanParse
    \/ RenderProduct
    \/ RenderInsights
    \/ RenderCalories
    \/ RenderSugar
    \/ RenderSodium
    \/ AdditivesHeading
    \/ RenderAdditive
    \/ ScanExcept
    \/ SearchTab
    \/ SearchCall
    \/ SearchParse
    \/ SearchLoop
    \/ RenderAlternative
    \/ SearchExcept

Spec == Init /\ [][Next]_vars

\* ------------------------------------------------------------- vocabulary
\* page elements that are part of a scan result
ResultKinds == {"product_name", "insights_heading", "insights", "calories", "sugar",
                "sodium", "additive_heading", "additive_card"}

IsCard(e) == e.kind = "additive_card"
\* the additive cards on the page, in page order: card i renders additives[i]
Cards == SelectSeq(shown, IsCard)

IsSuggestionName(e) == e.kind = "alt_name"
SuggestionNames == SelectSeq(shown, IsSuggestionName)

CountKind(k) == Cardinality({i \in 1..Len(shown) : shown[i].kind = k})

\* positions at which `data` is the parsed scan response
ScanDataLive == pc \in {"L139", "L142", "L150", "L151", "L152", "L155", "L157", "L165", "L172"}
                    /\ data.kind = "object"

\* positions after the try block of the scanner tab
AfterScan == {"L172", "L186", "L191", "L195", "L196", "L211", "idle"}

\* required keys the parsed scan response lacks, at either level
MissingKeys ==
    (ScanFields \ data.keys)
        \cup {f \in AdditiveFields : \E i \in 1..Len(data.items) : data.items[i][f] = Absent}

ConfigError == El("config_error", "App locked. Add API Key to Streamlit Secrets.")

\* ------------------------------------------------------------------ claims

\* C1 (as claimed): a scan that ends in an error has shown no part of the
\* result, only the one error message.
C1_AllOrNothing ==
    status = "error" => /\ Kinds \cap ResultKinds = {}
                        /\ CountKind("scan_error") <= 1

\* C2 (as claimed): one user action, one call: an execution started by a
\* submit (credential present, image readable) has issued exactly one
\* generate_content call when it ends.
C2_OneCallPerAction ==
    (pc = "idle" /\ actions > 0 /\ secret = "present" /\ image # "corrupt")
        => run_calls = 1

\* C3 (as claimed): whenever a non-empty query is present, the execution ends
\* with the outcome of the search on the page (the suggestions or the search's
\* own error), whatever happened in the scanner tab.
C3_SearchIndependent ==
    (pc = "idle" /\ search_query # NoText)
        => ("alt_heading" \in Kinds \/ "search_error" \in Kinds)

\* C4: with the credential absent no call is ever issued, neither tab is
\* reached (no input widget is put on the page), and the execution ends with
\* the configuration error as the only thing shown.
C4_MissingCredentialHalts ==
    secret = "absent" => /\ calls = 0
                         /\ pc \in {"L94", "idle"}
                         /\ widgets = {}
                         /\ image = "none" /\ search_query = NoText
                         /\ (pc = "idle" => shown = <<ConfigError>>)

C4_Witness == secret = "absent" /\ pc = "idle" /\ shown = <<ConfigError>>

\* C5 (as claimed): a parsed response that lacks a required key ends the scan
\* block in the error state, with an error message naming a key it lacks.
C5_MissingFieldRejected ==
    (pc = "L172" /\ ScanDataLive /\ MissingKeys # {})
        => /\ status = "error"
           /\ exc \in MissingKeys
           /\ El("scan_error", exc) \in {shown[i] : i \in 1..Len(shown)}

\* C6 (as claimed): every result that was rendered as a success carries a
\* verdict tier.
C6_ResultCarriesTier ==
    (pc = "L172" /\ status = "complete") => "verdict_tier" \in Kinds

\* C7 (as claimed): High is shown red, Medium yellow, Low green.
C7_HighMediumLow ==
    ScanDataLive =>
        \A i \in 1..Len(Cards) :
            LET r == data.items[i].risk_level
            IN /\ (r = "High" => Cards[i].detail = RedHex)
               /\ (r = "Medium" => Cards[i].detail = YellowHex)
               /\ (r = "Low" => Cards[i].detail = GreenHex)

\* C7 (amended): the tokens are those of the prompt: an additive whose
\* risk_level is "Red" is shown red, "Yellow" yellow, "Green" green.
C7_RedYellowGreen ==
    ScanDataLive =>
        \A i \in 1..Len(Cards) :
            LET r == data.items[i].risk_level
            IN /\ (r = "Red" => Cards[i].detail = RedHex)
               /\ (r = "Yellow" => Cards[i].detail = YellowHex)
               /\ (r = "Green" => Cards[i].detail = GreenHex)

C7_Witness ==
    /\ ScanDataLive
    /\ Len(Cards) = 2
    /\ {data.items[1].risk_level, data.items[2].risk_level} = {"Red", "Yellow"}

\* C8: the colour is total: every additive that has its four keys gets a card
\* whatever its risk_level string is (an exception raised in the loop is the
\* KeyError of a key the additive lacks), the colour of every card is one of
\* the three, and every token other than "Red" and "Yellow" is shown green.
C8_ColourTotal ==
    ScanDataLive =>
        /\ \A i \in 1..Len(Cards) :
              /\ Cards[i].detail \in {RedHex, YellowHex, GreenHex}
              /\ (data.items[i].risk_level \notin {"Red", "Yellow"}
                    => Cards[i].detail = GreenHex)
        /\ (pc \in {"L157", "L165"} /\ idx >= 1) => Len(Cards) = idx - 1
        /\ (pc = "L172" /\ status = "complete") => Len(Cards) = Len(data.items)
        /\ (pc = "L165" /\ idx >= 1)
              => exc \in AdditiveFields /\ data.items[idx][exc] = Absent

C8_Witness ==
    /\ ScanDataLive
    /\ \E i \in 1..Len(Cards) :
          data.items[i].risk_level = "High" /\ Cards[i].detail = GreenHex

\* C9 (as claimed): a search shown as a success shows exactly 3 suggestions,
\* each with a non-empty name, reason and image_search_prompt.
C9_ExactlyThree ==
    (pc = "idle" /\ "alt_heading" \in Kinds /\ "search_error" \notin Kinds)
        => /\ Len(SuggestionNames) = 3
           /\ Len(data.items) = 3
           /\ \A i \in 1..Len(data.items) : \A f \in AlternativeFields :
                 data.items[i][f] \notin {Absent, NoText}

\* C10 (as claimed): once the status is "Analysis Complete" it is never
\* changed to "Scan Failed".
C10_CompleteIsFinal == [][status = "complete" => status' # "error"]_vars

\* C10 (amended): when the try block of the scanner tab is over the status
\* agrees with its outcome: "Scan Failed" exactly when the call, the parse or
\* the rendering raised, and "Analysis Complete" only with the whole result on
\* the page.
C10_StatusAgrees ==
    /\ (pc \in AfterScan /\ exc # "none") => status = "error"
    /\ status = "error" => exc # "none"
    /\ (pc \in AfterScan /\ status # "none" /\ exc = "none") => status = "complete"
    /\ (pc = "L172" /\ status = "complete")
          => /\ ResultKinds \ {"additive_card"} \subseteq Kinds
             /\ Len(Cards) = Len(data.items)
             /\ "scan_error" \notin Kinds

\* a rendering step raised after the status had been set to complete
C10_Witness ==
    /\ pc = "idle"
    /\ status = "error"
    /\ exc \in ScanFields \cup AdditiveFields
    /\ "product_name" \in Kinds
====
